---- MODULE Spec2Model ----
\* gol-rs (src/main.rs): a toroidal Game of Life with ageing dead cells and a
\* differential terminal renderer.
EXTENDS Integers, Sequences, FiniteSets, TLC

VARIABLES
    board,              \* the Board main owns (or the &self of a probed method)
    pc,                 \* where the program stands
    screen,             \* terminal position -> background colour drawn there
    terminal_commands,  \* the String of set-cell commands of this iteration
    args,               \* the arguments of a probed method call
    ret,                \* what the probed method returned
    before,             \* the board as it was when compute_one_step was entered
    visited             \* the positions phase 1 has visited so far

vars == <<board, pc, screen, terminal_commands, args, ret, before, visited>>

\* ------------------------------------------------------------------ bounds
\* Largest terminal width / height the model draws from terminal_size().
MaxDim == 3
\* Largest number of cells (width * height) of a modelled board.
MaxCells == 9
\* Largest board side used for the still-life boards.
BlockMaxDim == 4
\* Largest board side and coordinate distance used to probe index_by_position.
IdxMaxDim == 3
IdxReach == 7
\* Largest side and number of cells of the boards the generation rule is tried on.
RuleMaxDim == 4
RuleMaxCells == 12
\* Largest number of cells of a board whose phase 1 is run in every order.
OrderMaxCells == 6
\* How many generations old such a board may be.
OrderMaxAge == 2

\* ------------------------------------------------------- program constants
U8_MAX == 255
U8_MOD == 256
U16_MOD == 65536
intencity_multiplier == 20

\* --------------------------------------------------------------- CellState
Alive == [tag |-> "Alive"]
Dead(cycles) == [tag |-> "Dead", age |-> cycles]

\* impl Default for CellState
\* A default cell state of age 0.
CellStateDefault_Fresh == Dead(0)

CellStateDefault == Dead(U8_MAX)

\* #[derive(Default)] struct Cell
CellDefault == [current |-> CellStateDefault, next |-> CellStateDefault]

\* Option::None, and the outcome of a panic (unwrap on None, remainder by zero).
None == [tag |-> "None"]
Panic == [tag |-> "Panic"]
\* A value a call returned without panicking.
Ok(v) == [tag |-> "Ok", val |-> v]

\* --------------------------------------------------------- integer helpers
\* Rust's `%` on i32: the remainder takes the sign of the dividend.
Rem(a, b) == IF a >= 0 THEN a % b ELSE 0 - ((0 - a) % b)

\* `v as usize` for an i32 v: a negative v becomes 2^N + v (N the pointer
\* width).  The value is kept as hi * 2^N + lo.
AsUsize(v) == IF v >= 0 THEN [hi |-> 0, lo |-> v] ELSE [hi |-> 1, lo |-> v]

\* Vec::get: Some(cell) when the index is below the length, None otherwise.
cells_get(b, u) ==
    IF u.hi = 0 /\ u.lo >= 0 /\ u.lo < Len(b.cells) THEN b.cells[u.lo + 1] ELSE None

\* ------------------------------------------------------------------- Board
from_shape(width, height) ==
    [width |-> width, height |-> height,
     cells |-> [i \in 1..(width * height) |-> CellDefault]]

\* The outcomes gen_bool(p) can produce; p is given in tenths.
gen_bool(p) == IF p <= 0 THEN {FALSE} ELSE IF p >= 10 THEN {TRUE} ELSE BOOLEAN

\* randomize writing Alive into both slots of a drawn cell.
randomize_BothSlots(b, draws) ==
    [b EXCEPT !.cells =
        [i \in 1..Len(b.cells) |->
            IF draws[i] THEN [current |-> Alive, next |-> Alive] ELSE b.cells[i]]]

\* randomize, given the sequence of draws the generator produced (one per cell).
randomize(b, draws) ==
    [b EXCEPT !.cells =
        [i \in 1..Len(b.cells) |->
            IF draws[i] THEN [b.cells[i] EXCEPT !.current = Alive] ELSE b.cells[i]]]

\* index_by_position taking the remainders without first adding the dimension.
index_by_position_BareRem(b, x, y) ==
    LET board_width == b.width
        board_height == b.height
    IN  IF board_height = 0 \/ board_width = 0
        THEN Panic
        ELSE AsUsize(board_width * Rem(y, board_height) + Rem(x, board_width))

\* index_by_position on a board with edges: coordinates stop at the border.
index_by_position_Clamped(b, x, y) ==
    LET board_width == b.width
        board_height == b.height
        cx == IF x < 0 THEN 0 ELSE IF x >= board_width THEN board_width - 1 ELSE x
        cy == IF y < 0 THEN 0 ELSE IF y >= board_height THEN board_height - 1 ELSE y
    IN  IF board_height = 0 \/ board_width = 0
        THEN Panic
        ELSE AsUsize(board_width * cy + cx)

index_by_position(b, x, y) ==
    LET board_width == b.width
        board_height == b.height
    IN  IF board_height = 0 \/ board_width = 0
        THEN Panic
        ELSE AsUsize(board_width * Rem(y + board_height, board_height)
                     + Rem(x + board_width, board_width))

\* The (x_shift, y_shift) pairs in the order the two loops produce them.
ShiftPairs ==
    << <<-1, -1>>, <<-1, 0>>, <<-1, 1>>,
       <<0, -1>>,  <<0, 0>>,  <<0, 1>>,
       <<1, -1>>,  <<1, 0>>,  <<1, 1>> >>

\* CountVisit without the `continue` for the centre.
CountVisit_CountsCentre(b, x, y, what_state, counter, shift) ==
    IF counter = Panic THEN Panic
    ELSE LET index == index_by_position(b, x + shift[1], y + shift[2])
             cell == IF index = Panic THEN None ELSE cells_get(b, index)
         IN  IF cell = None THEN Panic
             ELSE IF cell.current = what_state THEN Ok((counter.val + 1) % U8_MOD)
             ELSE counter

\* One pass of the inner loop body of count_cells_around_position.
CountVisit(b, x, y, what_state, counter, shift) ==
    IF counter = Panic THEN Panic
    ELSE IF shift[1] = 0 /\ shift[2] = 0 THEN counter
    ELSE LET index == index_by_position(b, x + shift[1], y + shift[2])
             cell == IF index = Panic THEN None ELSE cells_get(b, index)
         IN  IF cell = None THEN Panic
             ELSE IF cell.current = what_state THEN Ok((counter.val + 1) % U8_MOD)
             ELSE counter

count_cells_around_position(b, x, y, what_state) ==
    LET counter[k \in 0..9] ==
            IF k = 0 THEN Ok(0)
            ELSE CountVisit(b, x, y, what_state, counter[k - 1], ShiftPairs[k])
    IN  counter[9]

\* NextState with a dying cell starting at age 0.
NextState_DiesAtZero(current, alive_around) ==
    IF current = Alive
    THEN IF alive_around \in {2, 3} THEN Alive ELSE Dead(0)
    ELSE IF alive_around = 3 THEN Alive
         ELSE Dead(IF current.age = U8_MAX THEN U8_MAX ELSE (current.age + 1) % U8_MOD)

\* NextState with a dead cell also born from more than three live neighbours.
NextState_BirthOnCrowd(current, alive_around) ==
    IF current = Alive
    THEN IF alive_around \in {2, 3} THEN Alive ELSE Dead(1)
    ELSE IF alive_around >= 3 THEN Alive
         ELSE Dead(IF current.age = U8_MAX THEN U8_MAX ELSE (current.age + 1) % U8_MOD)

\* NextState without the u8::MAX arm: the age wraps.
NextState_Wrapping(current, alive_around) ==
    IF current = Alive
    THEN IF alive_around \in {2, 3} THEN Alive ELSE Dead(1)
    ELSE IF alive_around = 3 THEN Alive
         ELSE Dead((current.age + 1) % U8_MOD)

\* The new state of a cell (the match of compute_one_step).
NextState(current, alive_around) ==
    IF current = Alive
    THEN IF alive_around \in {2, 3} THEN Alive ELSE Dead(1)
    ELSE IF alive_around = 3 THEN Alive
         ELSE Dead(IF current.age = U8_MAX THEN U8_MAX ELSE (current.age + 1) % U8_MOD)

\* Phase1Visit updating the cell in place (writing current instead of next).
Phase1Visit_InPlace(b, x_pos, y_pos) ==
    IF b = Panic THEN Panic
    ELSE LET alive_around == count_cells_around_position(b, x_pos, y_pos, Alive)
             index == index_by_position(b, x_pos, y_pos)
             cell == IF index = Panic THEN None ELSE cells_get(b, index)
         IN  IF alive_around = Panic \/ cell = None THEN Panic
             ELSE [b EXCEPT !.cells[index.lo + 1].current =
                                NextState(cell.current, alive_around.val)]

\* The body of the phase-1 loops for one (x_pos, y_pos): writes cell.next.
Phase1Visit(b, x_pos, y_pos) ==
    IF b = Panic THEN Panic
    ELSE LET alive_around == count_cells_around_position(b, x_pos, y_pos, Alive)
             index == index_by_position(b, x_pos, y_pos)
             cell == IF index = Panic THEN None ELSE cells_get(b, index)
         IN  IF alive_around = Panic \/ cell = None THEN Panic
             ELSE [b EXCEPT !.cells[index.lo + 1].next =
                                NextState(cell.current, alive_around.val)]

\* Phase 1 over a sequence of positions, visited in order.
Phase1(b, order) ==
    LET after[k \in 0..Len(order)] ==
            IF k = 0 THEN b ELSE Phase1Visit(after[k - 1], order[k][1], order[k][2])
    IN  after[Len(order)]

\* for x_pos in 0..width { for y_pos in 0..height {..} }
StepOrder(b) ==
    [k \in 1..(b.width * b.height) |-> <<(k - 1) \div b.height, (k - 1) % b.height>>]

\* Phase 2: std::mem::swap(&mut cell.current, &mut cell.next) for every cell.
\* Phase 2 copying next into current without keeping the old current.
Phase2_CopyOnly(b) ==
    IF b = Panic THEN Panic
    ELSE [b EXCEPT !.cells =
            [i \in 1..Len(b.cells) |->
                [current |-> b.cells[i].next, next |-> b.cells[i].next]]]

Phase2(b) ==
    IF b = Panic THEN Panic
    ELSE [b EXCEPT !.cells =
            [i \in 1..Len(b.cells) |->
                [current |-> b.cells[i].next, next |-> b.cells[i].current]]]

compute_one_step(b) == Phase2(Phase1(b, StepOrder(b)))

\* ---------------------------------------------------------------- renderer
Rgb(r, g, b) == <<r, g, b>>
Black == Rgb(0, 0, 0)

\* Colour with the guard computed on the 8-bit product, which has wrapped.
Colour_GuardOnU8(state) ==
    IF state = Alive THEN Rgb(U8_MAX, U8_MAX, U8_MAX)
    ELSE LET cycles == state.age
             intencity == IF (cycles * intencity_multiplier) % U8_MOD > U8_MAX
                          THEN 0
                          ELSE U8_MAX - ((cycles * (intencity_multiplier % U8_MOD)) % U8_MOD)
         IN  Rgb(intencity \div 2, intencity \div 5, intencity)

\* The colour the scan selects for a state.
Colour(state) ==
    IF state = Alive THEN Rgb(U8_MAX, U8_MAX, U8_MAX)
    ELSE LET cycles == state.age
             intencity == IF cycles * intencity_multiplier > U8_MAX
                          THEN 0
                          ELSE U8_MAX - ((cycles * (intencity_multiplier % U8_MOD)) % U8_MOD)
         IN  Rgb(intencity \div 2, intencity \div 5, intencity)

\* Goto((x_pos + 1) as u16, (y_pos + 1) as u16)
Goto(x_pos, y_pos) == <<(x_pos + 1) % U16_MOD, (y_pos + 1) % U16_MOD>>

\* for y_pos in 0..height { for x_pos in 0..width {..} }
ScanOrder(b) ==
    [k \in 1..(b.width * b.height) |-> <<(k - 1) % b.width, (k - 1) \div b.width>>]

\* ScanVisit taking the colour from next instead of current.
ScanVisit_ColourOfNext(b, commands, x_pos, y_pos) ==
    IF commands = Panic THEN Panic
    ELSE LET index == index_by_position(b, x_pos, y_pos)
             cell == IF index = Panic THEN None ELSE cells_get(b, index)
         IN  IF cell = None THEN Panic
             ELSE IF cell.current = cell.next THEN commands
             ELSE Ok(Append(commands.val,
                            [at |-> Goto(x_pos, y_pos), bg |-> Colour(cell.next)]))

\* ScanVisit without the current == next test: every cell is repainted.
ScanVisit_NoSkip(b, commands, x_pos, y_pos) ==
    IF commands = Panic THEN Panic
    ELSE LET index == index_by_position(b, x_pos, y_pos)
             cell == IF index = Panic THEN None ELSE cells_get(b, index)
         IN  IF cell = None THEN Panic
             ELSE Ok(Append(commands.val,
                            [at |-> Goto(x_pos, y_pos), bg |-> Colour(cell.current)]))

\* The body of the scan loops for one (x_pos, y_pos).
ScanVisit(b, commands, x_pos, y_pos) ==
    IF commands = Panic THEN Panic
    ELSE LET index == index_by_position(b, x_pos, y_pos)
             cell == IF index = Panic THEN None ELSE cells_get(b, index)
         IN  IF cell = None THEN Panic
             ELSE IF cell.current = cell.next THEN commands
             ELSE Ok(Append(commands.val,
                            [at |-> Goto(x_pos, y_pos), bg |-> Colour(cell.current)]))

Scan(b) ==
    LET order == ScanOrder(b)
        commands[k \in 0..Len(order)] ==
            IF k = 0 THEN Ok(<<>>)
            ELSE ScanVisit(b, commands[k - 1], order[k][1], order[k][2])
    IN  commands[Len(order)]

\* The terminal after it has interpreted a string of set-cell commands.
Paint(scr, commands) ==
    LET painted[k \in 0..Len(commands)] ==
            IF k = 0 THEN scr
            ELSE LET prev == painted[k - 1]
                     command == commands[k]
                 IN  [p \in (DOMAIN prev) \cup {command.at} |->
                        IF p = command.at THEN command.bg ELSE prev[p]]
    IN  painted[Len(commands)]

\* clear::All, then a black space at every position (x outer, y inner).
ClearCommands(b) ==
    [k \in 1..(b.width * b.height) |->
        [at |-> Goto((k - 1) \div b.height, (k - 1) % b.height), bg |-> Black]]

EmptyScreen == [p \in {} |-> Black]

\* -------------------------------------------------------------------- main
NoArgs == [x |-> 0, y |-> 0]

\* The (width, height) pairs terminal_size() may report.
Shapes ==
    {s \in (0..MaxDim) \X (0..MaxDim) : s[1] * s[2] <= MaxCells}

\* The probability main passes to randomize, in tenths (0.1).
probability == 1

Init ==
    /\ board = from_shape(0, 0)
    /\ pc = "start"
    /\ screen = EmptyScreen
    /\ terminal_commands = <<>>
    /\ args = NoArgs
    /\ ret = None
    /\ before = from_shape(0, 0)
    /\ visited = {}

\* let (width, height) = terminal_size().unwrap(); Board::from_shape(..)
MainFromShape ==
    /\ pc = "start"
    /\ \E s \in Shapes : board' = from_shape(s[1], s[2])
    /\ pc' = "randomize"
    /\ UNCHANGED <<screen, terminal_commands, args, ret, before, visited>>

\* .randomize(0.1, &mut generator)
MainRandomize ==
    /\ pc = "randomize"
    /\ \E draws \in [1..Len(board.cells) -> gen_bool(probability)] :
          board' = randomize(board, draws)
    /\ pc' = "clear"
    /\ UNCHANGED <<screen, terminal_commands, args, ret, before, visited>>

\* write!(clear::All) and the black fill.
MainClear ==
    /\ pc = "clear"
    /\ screen' = Paint(EmptyScreen, ClearCommands(board))
    /\ pc' = "render"
    /\ UNCHANGED <<board, terminal_commands, args, ret, before, visited>>

\* One loop iteration up to the write: the diff scan builds terminal_commands
\* and write!(stdout, "{terminal_commands}{reset}") sends it to the terminal.
MainRender ==
    /\ pc = "render"
    /\ LET commands == Scan(board)
       IN  IF commands = Panic
           THEN pc' = "panicked" /\ UNCHANGED <<terminal_commands, screen>>
           ELSE /\ pc' = "step"
                /\ terminal_commands' = commands.val
                /\ screen' = Paint(screen, commands.val)
    /\ UNCHANGED <<board, args, ret, before, visited>>

\* An iteration that steps the board twice after its scan.
MainStep_Twice ==
    /\ pc = "step"
    /\ LET b == compute_one_step(compute_one_step(board))
       IN  IF b = Panic
           THEN pc' = "panicked" /\ UNCHANGED board
           ELSE pc' = "render" /\ board' = b
    /\ terminal_commands' = <<>>
    /\ UNCHANGED <<screen, args, ret, before, visited>>

\* board.compute_one_step(), the sleep, and the String dropped at the end of
\* the iteration.
MainStep ==
    /\ pc = "step"
    /\ LET b == compute_one_step(board)
       IN  IF b = Panic
           THEN pc' = "panicked" /\ UNCHANGED board
           ELSE pc' = "render" /\ board' = b
    /\ terminal_commands' = <<>>
    /\ UNCHANGED <<screen, args, ret, before, visited>>

Next ==
    \/ MainFromShape
    \/ MainRandomize
    \/ MainClear
    \/ MainRender
    \/ MainStep

Spec == Init /\ [][Next]_vars

\* --------------------------------------------- index_by_position, probed
\* A board of any small shape and any coordinates within IdxReach of it.
InitIndex ==
    /\ \E w \in 1..IdxMaxDim, h \in 1..IdxMaxDim : board = from_shape(w, h)
    /\ \E x \in (0 - IdxReach)..IdxReach, y \in (0 - IdxReach)..IdxReach :
          args = [x |-> x, y |-> y]
    /\ pc = "call"
    /\ ret = None
    /\ screen = EmptyScreen
    /\ terminal_commands = <<>>
    /\ before = from_shape(0, 0)
    /\ visited = {}

IndexCall ==
    /\ pc = "call"
    /\ ret' = index_by_position(board, args.x, args.y)
    /\ pc' = "returned"
    /\ UNCHANGED <<board, screen, terminal_commands, args, before, visited>>

SpecIndex == InitIndex /\ [][IndexCall]_vars

\* ------------------------------------- compute_one_step, phase by phase
\* compute_one_step applied n times.
Generation(b, n) ==
    LET gen[k \in 0..n] == IF k = 0 THEN b ELSE compute_one_step(gen[k - 1])
    IN  gen[n]

OrderShapes ==
    {s \in (1..OrderMaxCells) \X (1..OrderMaxCells) : s[1] * s[2] <= OrderMaxCells}

\* compute_one_step is entered on a seeded board that is a few generations old.
InitOrder ==
    /\ \E s \in OrderShapes, n \in 0..OrderMaxAge :
          \E draws \in [1..(s[1] * s[2]) -> gen_bool(probability)] :
              board = Generation(randomize(from_shape(s[1], s[2]), draws), n)
    /\ before = board
    /\ visited = {}
    /\ pc = "phase1"
    /\ screen = EmptyScreen
    /\ terminal_commands = <<>>
    /\ args = NoArgs
    /\ ret = None

\* The phase-1 loop body for some position not visited yet.
Phase1Step ==
    /\ pc = "phase1"
    /\ \E x_pos \in 0..(board.width - 1), y_pos \in 0..(board.height - 1) :
          /\ <<x_pos, y_pos>> \notin visited
          /\ board' = Phase1Visit(board, x_pos, y_pos)
          /\ visited' = visited \cup {<<x_pos, y_pos>>}
    /\ UNCHANGED <<pc, screen, terminal_commands, args, ret, before>>

\* The phase-2 loop, once every position has been visited.
Phase2Step ==
    /\ pc = "phase1"
    /\ visited = (0..(board.width - 1)) \X (0..(board.height - 1))
    /\ board' = Phase2(board)
    /\ pc' = "committed"
    /\ UNCHANGED <<screen, terminal_commands, args, ret, before, visited>>

NextOrder == Phase1Step \/ Phase2Step

SpecOrder == InitOrder /\ [][NextOrder]_vars

\* ------------------------------------ count_cells_around_position, probed
\* The states the cells of a probed board are drawn from, and the targets asked for.
CountStates == {Alive, Dead(1), Dead(U8_MAX)}
CountTargets == CountStates \cup {Dead(2)}

CountShapes == {s \in Shapes : s[1] > 0 /\ s[2] > 0}

\* A board of any small shape with any cells, and any cell position on it.
InitCount ==
    /\ \E s \in CountShapes :
          /\ \E states \in [1..(s[1] * s[2]) -> CountStates] :
                board = [width |-> s[1], height |-> s[2],
                         cells |-> [i \in 1..(s[1] * s[2]) |->
                            [current |-> states[i], next |-> CellStateDefault]]]
          /\ \E x \in 0..(s[1] - 1), y \in 0..(s[2] - 1) : args = [x |-> x, y |-> y]
    /\ pc = "call"
    /\ ret = None
    /\ screen = EmptyScreen
    /\ terminal_commands = <<>>
    /\ before = from_shape(0, 0)
    /\ visited = {}

\* The call, once for each target state.
CountCall ==
    /\ pc = "call"
    /\ ret' = [what_state \in CountTargets |->
                 count_cells_around_position(board, args.x, args.y, what_state)]
    /\ pc' = "returned"
    /\ UNCHANGED <<board, screen, terminal_commands, args, before, visited>>

SpecCount == InitCount /\ [][CountCall]_vars

\* ------------------------------------ compute_one_step on any small board
RuleShapes ==
    {s \in (1..RuleMaxDim) \X (1..RuleMaxDim) : s[1] * s[2] <= RuleMaxCells}

\* The ages the dead cells of such a board have.
RuleAges == {1, U8_MAX - 1, U8_MAX}

\* Any pattern of Alive cells on a board whose other cells are Dead(age).
InitRule ==
    /\ \E s \in RuleShapes, age \in RuleAges :
          \E alive \in SUBSET (1..(s[1] * s[2])) :
              board = [width |-> s[1], height |-> s[2],
                       cells |-> [i \in 1..(s[1] * s[2]) |->
                          [current |-> IF i \in alive THEN Alive ELSE Dead(age),
                           next |-> CellStateDefault]]]
    /\ before = board
    /\ pc = "step"
    /\ visited = {}
    /\ screen = EmptyScreen
    /\ terminal_commands = <<>>
    /\ args = NoArgs
    /\ ret = None

RuleStep ==
    /\ pc = "step"
    /\ LET b == compute_one_step(board)
       IN  IF b = Panic
           THEN pc' = "panicked" /\ UNCHANGED board
           ELSE pc' = "stepped" /\ board' = b
    /\ UNCHANGED <<screen, terminal_commands, args, ret, before, visited>>

SpecRule == InitRule /\ [][RuleStep]_vars

\* ------------------------------------------------- the 2x2 block boards
\* The ages the dead cells of a block board start with.
BlockAges == {1, U8_MAX - 1, U8_MAX}

\* The board of shape w x h whose Alive cells are the 2x2 block with corner
\* (bx, by), wrapping at the edges; every other cell is Dead(age).
BlockBoard(w, h, bx, by, age) ==
    [width |-> w, height |-> h,
     cells |-> [i \in 1..(w * h) |->
        LET x == (i - 1) % w
            y == (i - 1) \div w
            in_block == /\ x \in {bx, (bx + 1) % w}
                        /\ y \in {by, (by + 1) % h}
        IN  [current |-> IF in_block THEN Alive ELSE Dead(age),
             next |-> IF in_block THEN Alive ELSE Dead(age)]]]

InitBlock ==
    /\ \E w \in 4..BlockMaxDim, h \in 4..BlockMaxDim :
          \E bx \in 0..(w - 1), by \in 0..(h - 1), age \in BlockAges :
              board = BlockBoard(w, h, bx, by, age)
    /\ before = board
    /\ pc = "step"
    /\ visited = {}
    /\ screen = EmptyScreen
    /\ terminal_commands = <<>>
    /\ args = NoArgs
    /\ ret = None

BlockStep ==
    /\ pc = "step"
    /\ LET b == compute_one_step(board)
       IN  IF b = Panic
           THEN pc' = "panicked" /\ UNCHANGED board
           ELSE pc' = "step" /\ board' = b
    /\ UNCHANGED <<screen, terminal_commands, args, ret, before, visited>>

SpecBlock == InitBlock /\ [][BlockStep]_vars

\* ------------------------------------------------------ randomize, probed
\* The probabilities tried, in tenths: 0.0, 0.1, 0.5 and 1.0.
SeedProbabilities == {0, probability, 5, 10}

SeedShapes == {s \in Shapes : s[1] > 0 /\ s[2] > 0}

\* A board fresh from from_shape and a probability.
InitSeed ==
    /\ \E s \in SeedShapes : board = from_shape(s[1], s[2])
    /\ \E p \in SeedProbabilities : args = [p |-> p]
    /\ before = board
    /\ pc = "call"
    /\ ret = None
    /\ visited = {}
    /\ screen = EmptyScreen
    /\ terminal_commands = <<>>

SeedCall ==
    /\ pc = "call"
    /\ \E draws \in [1..Len(board.cells) -> gen_bool(args.p)] :
          board' = randomize(board, draws)
    /\ pc' = "returned"
    /\ UNCHANGED <<screen, terminal_commands, args, ret, before, visited>>

SpecSeed == InitSeed /\ [][SeedCall]_vars

\* ------------------------------------------------- the colour mapping, probed
\* Every CellState there is.
AllStates == {Alive} \cup {Dead(age) : age \in 0..U8_MAX}

InitColour ==
    /\ \E state \in AllStates : args = [state |-> state]
    /\ pc = "call"
    /\ ret = None
    /\ board = from_shape(0, 0)
    /\ before = from_shape(0, 0)
    /\ visited = {}
    /\ screen = EmptyScreen
    /\ terminal_commands = <<>>

ColourCall ==
    /\ pc = "call"
    /\ ret' = Colour(args.state)
    /\ pc' = "returned"
    /\ UNCHANGED <<board, screen, terminal_commands, args, before, visited>>

SpecColour == InitColour /\ [][ColourCall]_vars

\* ------------------------------------------------ the rules, as stated
\* The 8 offsets of the Moore neighbourhood.
Offsets8 == ({-1, 0, 1} \X {-1, 0, 1}) \ {<<0, 0>>}

Positions(b) == (0..(b.width - 1)) \X (0..(b.height - 1))

\* The cell at (x, y) on the torus; % is the floored modulo.
CellAt(b, x, y) == b.cells[b.width * (y % b.height) + (x % b.width) + 1]

\* How many of the 8 offsets of (x, y) lead to a cell whose current is state.
Around(b, x, y, state) ==
    Cardinality({d \in Offsets8 : CellAt(b, x + d[1], y + d[2]).current = state})

IsDead(state) == state.tag = "Dead"

\* MainStep is about to run compute_one_step on a proper board.
AtStep == pc = "step" /\ board.width > 0 /\ board.height > 0

\* C1: a cell that is Alive before compute_one_step is Alive after it when 2
\* or 3 of its 8 toroidal neighbours were Alive, and Dead(1) for any other count.
C1_AliveCellRule ==
    /\ pc # "panicked"
    /\ pc = "stepped" =>
          \A p \in Positions(before) :
              CellAt(before, p[1], p[2]).current = Alive =>
                 CellAt(board, p[1], p[2]).current =
                    IF Around(before, p[1], p[2], Alive) \in {2, 3} THEN Alive ELSE Dead(1)

\* A cell at p went from state old with n live neighbours to state new.
Went(p, old, n, new) ==
    /\ CellAt(before, p[1], p[2]).current = old
    /\ Around(before, p[1], p[2], Alive) \in n
    /\ CellAt(board, p[1], p[2]).current = new

\* A board just stepped on which Alive cells with 2 and with 3 live neighbours
\* survived and an Alive cell with more than 3 died.
C1_Witness ==
    /\ pc = "stepped"
    /\ \E p \in Positions(before) : Went(p, Alive, {2}, Alive)
    /\ \E p \in Positions(before) : Went(p, Alive, {3}, Alive)
    /\ \E p \in Positions(before) : Went(p, Alive, 4..8, Dead(1))

\* C2: a cell that is Dead(age) before compute_one_step is Alive after it when
\* exactly 3 of its 8 toroidal neighbours were Alive; otherwise it is
\* Dead(age + 1), or Dead(255) when age = 255.
C2_DeadCellRule ==
    /\ pc # "panicked"
    /\ pc = "stepped" =>
          \A p \in Positions(before) :
              LET old == CellAt(before, p[1], p[2]).current
              IN  IsDead(old) =>
                    CellAt(board, p[1], p[2]).current =
                       IF Around(before, p[1], p[2], Alive) = 3 THEN Alive
                       ELSE IF old.age < 255 THEN Dead(old.age + 1)
                       ELSE Dead(255)

\* A board just stepped on which a Dead(254) cell with 3 live neighbours was
\* born and Dead(254) cells with 2 and with 4 live neighbours aged to 255.
C2_Witness ==
    /\ pc = "stepped"
    /\ \E p \in Positions(before) : Went(p, Dead(254), {3}, Alive)
    /\ \E p \in Positions(before) : Went(p, Dead(254), {2}, Dead(255))
    /\ \E p \in Positions(before) : Went(p, Dead(254), {4}, Dead(255))

\* The generation rule of a single cell with n live neighbours.
RuleOfLife(state, n) ==
    IF state = Alive THEN (IF n \in {2, 3} THEN Alive ELSE Dead(1))
    ELSE IF n = 3 THEN Alive
    ELSE IF state.age < 255 THEN Dead(state.age + 1)
    ELSE Dead(255)

\* The synchronous update: every cell computed from the generation b holds.
SyncStep(b) ==
    [b EXCEPT !.cells =
        [i \in 1..Len(b.cells) |->
            [current |-> RuleOfLife(b.cells[i].current,
                                    Around(b, (i - 1) % b.width, (i - 1) \div b.width, Alive)),
             next |-> b.cells[i].current]]]

\* C3: while phase 1 runs, in whatever order it visits the cells, it changes
\* only next fields (of the cells visited) and no current; once phase 2 has
\* run, the board is the synchronous update of the board the step started from.
C3_OrderIndependent ==
    /\ pc = "phase1" =>
          /\ board # Panic
          /\ board.width = before.width /\ board.height = before.height
          /\ Len(board.cells) = Len(before.cells)
          /\ \A p \in Positions(before) :
                /\ CellAt(board, p[1], p[2]).current = CellAt(before, p[1], p[2]).current
                /\ p \notin visited =>
                      CellAt(board, p[1], p[2]).next = CellAt(before, p[1], p[2]).next
    /\ pc = "committed" => board = SyncStep(before)

\* A 6-cell board after a complete step in which one cell died and another was born.
C3_Witness ==
    /\ pc = "committed" /\ Len(board.cells) = 6
    /\ \E i, j \in 1..Len(board.cells) :
          /\ before.cells[i].current = Alive /\ board.cells[i].current = Dead(1)
          /\ IsDead(before.cells[j].current) /\ board.cells[j].current = Alive

\* The positions whose cell is Alive.
AliveSet(b) == {p \in Positions(b) : CellAt(b, p[1], p[2]).current = Alive}

\* S is a 2x2 block of the torus of b.
IsBlock(b, S) ==
    \E bx \in 0..(b.width - 1), by \in 0..(b.height - 1) :
        S = {<<bx, by>>, <<(bx + 1) % b.width, by>>,
             <<bx, (by + 1) % b.height>>, <<(bx + 1) % b.width, (by + 1) % b.height>>}

\* C4: on a board of at least 4x4 whose Alive cells are a 2x2 block, wherever
\* the block lies, the Alive cells after any number of steps are that block.
C4_BlockIsStill ==
    /\ pc # "panicked"
    /\ before.width >= 4 /\ before.height >= 4
    /\ IsBlock(before, AliveSet(before))
    /\ AliveSet(board) = AliveSet(before)

\* A block lying across both wrap edges, after at least one step.
C4_Witness ==
    /\ board # before
    /\ AliveSet(board) = {<<0, 0>>, <<board.width - 1, 0>>,
                           <<0, board.height - 1>>, <<board.width - 1, board.height - 1>>}

\* C5: across a compute_one_step in which a cell stays dead, its age grows by
\* exactly 1, except that at 255 it stays 255: it never decreases or wraps.
C5_AgeSaturates ==
    [][AtStep =>
        \A i \in 1..Len(board.cells) :
            (IsDead(board.cells[i].current) /\ IsDead(board'.cells[i].current)) =>
                /\ board'.cells[i].current.age >= board.cells[i].current.age
                /\ board'.cells[i].current.age =
                      IF board.cells[i].current.age = 255 THEN 255
                      ELSE board.cells[i].current.age + 1]_vars

\* A board just stepped on which one cell went from age 254 to 255 and
\* another stayed at 255.
C5_Witness ==
    /\ pc = "render"
    /\ \E i, j \in 1..Len(board.cells) :
          /\ board.cells[i].next = Dead(254) /\ board.cells[i].current = Dead(255)
          /\ board.cells[j].next = Dead(255) /\ board.cells[j].current = Dead(255)

\* C6: for x in [-w, 2w) and y in [-h, 2h), index_by_position(x, y) is
\* w * (y mod h) + (x mod w) with the floored modulo, hence in [0, w*h);
\* x = -1 is column w-1, x = w column 0, y = -1 row h-1, y = h row 0.
C6_IndexWithinOneWrap ==
    LET w == board.width
        h == board.height
    IN  (/\ pc = "returned"
         /\ args.x \in (0 - w)..(2 * w - 1)
         /\ args.y \in (0 - h)..(2 * h - 1)) =>
            /\ ret = [hi |-> 0, lo |-> w * (args.y % h) + (args.x % w)]
            /\ ret.lo \in 0..(w * h - 1)
            /\ args.x = -1 => ret.lo % w = w - 1
            /\ args.x = w => ret.lo % w = 0
            /\ args.y = -1 => ret.lo \div w = h - 1
            /\ args.y = h => ret.lo \div w = 0

\* index_by_position(-1, 2) on a 3x2 board returned 2: column 2 of row 0.
C6_Witness ==
    /\ pc = "returned" /\ board.width = 3 /\ board.height = 2
    /\ args = [x |-> -1, y |-> 2]
    /\ ret = [hi |-> 0, lo |-> 2]

\* C7: for all integers x and y, index_by_position(x, y) is in [0, w*h) and
\* equals index_by_position(x + w, y) and index_by_position(x, y + h).
C7_IndexTotalAndPeriodic ==
    pc = "returned" =>
        /\ ret.hi = 0
        /\ ret.lo \in 0..(board.width * board.height - 1)
        /\ ret = index_by_position(board, args.x + board.width, args.y)
        /\ ret = index_by_position(board, args.x, args.y + board.height)

\* C8: count_cells_around_position(x, y, target) is the number of the 8
\* offsets other than (0,0) whose wrapped cell has current exactly equal to
\* target, an age included; it lies in [0, 8].
C8_CountIsNeighbourCount ==
    (pc = "returned" /\ DOMAIN ret = CountTargets) =>
        \A what_state \in CountTargets :
            /\ ret[what_state] = Ok(Around(board, args.x, args.y, what_state))
            /\ ret[what_state].val \in 0..8

\* A 3x3 board on which the call found 3 Alive, 2 Dead(1) and 3 Dead(255)
\* neighbours of a Dead(1) cell, and no Dead(2).
C8_Witness ==
    /\ pc = "returned" /\ DOMAIN ret = CountTargets
    /\ board.width = 3 /\ board.height = 3
    /\ CellAt(board, args.x, args.y).current = Dead(1)
    /\ ret[Alive] = Ok(3) /\ ret[Dead(1)] = Ok(2)
    /\ ret[Dead(U8_MAX)] = Ok(3) /\ ret[Dead(2)] = Ok(0)

\* The terminal position of the cell at p.
TerminalAt(p) == <<p[1] + 1, p[2] + 1>>

\* C9: the diff scan emits exactly one command for each cell whose current
\* differs from its next, at (x+1, y+1) with the colour of current, and none
\* for any other cell; a board with current = next everywhere yields none.
C9_DiffScan ==
    /\ pc # "panicked"
    /\ (pc = "step" /\ board.width > 0 /\ board.height > 0 /\ screen # EmptyScreen) =>
          /\ \A p \in Positions(board) :
                LET cell == CellAt(board, p[1], p[2])
                    hits == {k \in 1..Len(terminal_commands) :
                                terminal_commands[k].at = TerminalAt(p)}
                IN  IF cell.current = cell.next
                    THEN hits = {}
                    ELSE /\ Cardinality(hits) = 1
                         /\ \A k \in hits : terminal_commands[k].bg = Colour(cell.current)
          /\ \A k \in 1..Len(terminal_commands) :
                \E p \in Positions(board) : terminal_commands[k].at = TerminalAt(p)
          /\ (\A i \in 1..Len(board.cells) : board.cells[i].current = board.cells[i].next)
                => terminal_commands = <<>>

\* A scan that emitted for some cells and skipped others.
C9_Witness ==
    /\ pc = "step" /\ screen # EmptyScreen
    /\ Len(terminal_commands) >= 2
    /\ \E i \in 1..Len(board.cells) : board.cells[i].current = board.cells[i].next

\* A scan of a live board that emitted nothing.
C9_WitnessNone ==
    /\ pc = "step" /\ screen # EmptyScreen
    /\ terminal_commands = <<>>
    /\ \E i \in 1..Len(board.cells) : board.cells[i].current = Alive

\* The cell a command addresses.
CellOf(command) == CellAt(board, command.at[1] - 1, command.at[2] - 1)

\* The states the colour mapping draws black.
DrawnBlack(state) == IsDead(state) /\ state.age * 20 > 255

\* C10 as claimed: no command of a rendering cycle repaints a cell with the
\* colour the terminal already shows there.
C10_OnlyColourChanges ==
    [][pc = "render" =>
        \A k \in 1..Len(terminal_commands') :
            screen[terminal_commands'[k].at] # terminal_commands'[k].bg]_vars

\* C10, amended: a command is emitted only for a cell whose state differs
\* from its state in the last frame; it repaints the colour already shown
\* only when both states are dead ones drawn black.
C10_OnlyStateChanges ==
    [][pc = "render" =>
        \A k \in 1..Len(terminal_commands') :
            LET command == terminal_commands'[k]
                cell == CellOf(command)
            IN  /\ cell.current # cell.next
                /\ screen[command.at] = Colour(cell.next)
                /\ screen[command.at] = command.bg =>
                      DrawnBlack(cell.current) /\ DrawnBlack(cell.next)]_vars

\* A frame in which the scan repainted a black cell black.
C10_Witness ==
    /\ pc = "step"
    /\ \E k \in 1..Len(terminal_commands) :
          /\ terminal_commands[k].bg = Black
          /\ CellOf(terminal_commands[k]).next = Dead(13)
          /\ CellOf(terminal_commands[k]).current = Dead(14)

\* C11: from_shape with width = 0 or height = 0 is rejected; no Board with
\* zero cells is ever constructed.
C11_ZeroShapeRejected ==
    pc # "start" => (board.width > 0 /\ board.height > 0 /\ Len(board.cells) > 0)

\* C12: on a fresh board randomize(0.0) leaves every current at Dead(255) and
\* randomize(1.0) makes every current Alive; for any probability it changes
\* only current fields, each to Alive or not at all, and never next, width,
\* height or the number of cells.
C12_RandomizeSeeds ==
    (pc = "returned" /\ DOMAIN args = {"p"}) =>
        /\ board.width = before.width /\ board.height = before.height
        /\ Len(board.cells) = Len(before.cells)
        /\ \A i \in 1..Len(before.cells) :
              /\ board.cells[i].next = before.cells[i].next
              /\ board.cells[i].current \in {Alive, before.cells[i].current}
              /\ args.p = 0 => board.cells[i].current = Dead(255)
              /\ args.p = 10 => board.cells[i].current = Alive

\* A 3x3 board seeded with probability 0.1 on which some cells were drawn
\* and others were not.
C12_Witness ==
    /\ pc = "returned" /\ DOMAIN args = {"p"} /\ args.p = 1
    /\ board.width = 3 /\ board.height = 3
    /\ \E i, j \in 1..Len(board.cells) :
          /\ board.cells[i] = [current |-> Alive, next |-> Dead(255)]
          /\ board.cells[j] = [current |-> Dead(255), next |-> Dead(255)]

\* The intensity the mapping is claimed to give a dead cell.
Intensity(age) == IF 20 * age <= 255 THEN 255 - 20 * age ELSE 0

\* C17: Alive is drawn (255, 255, 255); Dead(age) is drawn (i/2, i/5, i) with
\* i = 255 - 20*age when 20*age <= 255 and 0 otherwise, so the 8-bit product
\* never wraps; i does not grow with age and no Dead colour is the Alive one.
C17_ColourMapping ==
    (pc = "returned" /\ DOMAIN args = {"state"}) =>
        IF args.state = Alive
        THEN ret = <<255, 255, 255>>
        ELSE LET age == args.state.age
                 i == Intensity(age)
             IN  /\ ret = <<i \div 2, i \div 5, i>>
                 /\ ret # <<255, 255, 255>>
                 /\ (20 * age <= 255) => (age * 20) % 256 = age * 20
                 /\ age > 0 => ret[3] <= Colour(Dead(age - 1))[3]

\* The mapping applied to Dead(12), the oldest age that is not drawn black.
C17_Witness ==
    /\ pc = "returned" /\ DOMAIN args = {"state"}
    /\ args.state = Dead(12)
    /\ ret = <<7, 3, 15>>

\* The indices the 8 neighbour offsets of (x, y) resolve to.
NeighbourIndices(b, x, y) ==
    {index_by_position(b, x + d[1], y + d[2]) : d \in Offsets8}

\* C20: on a board with width >= 3 and height >= 3 the 8 neighbour offsets of
\* a cell resolve to 8 distinct indices, none the cell's own; on a board with
\* width < 3 or height < 3 they do not.
C20_NeighboursDistinct ==
    (/\ pc = "returned" /\ DOMAIN args = {"x", "y"}
     /\ args.x \in 0..(board.width - 1) /\ args.y \in 0..(board.height - 1)) =>
        LET indices == NeighbourIndices(board, args.x, args.y)
        IN  (board.width >= 3 /\ board.height >= 3)
                <=> (Cardinality(indices) = 8 /\ ret \notin indices)

\* The corner cell of a 3x3 board, whose neighbours all lie across a wrap edge
\* or next to one.
C20_Witness ==
    /\ pc = "returned" /\ DOMAIN args = {"x", "y"}
    /\ board.width = 3 /\ board.height = 3
    /\ args = [x |-> 0, y |-> 0]
    /\ ret = [hi |-> 0, lo |-> 0]
    /\ Cardinality(NeighbourIndices(board, 0, 0)) = 8

\* The offsets compute_one_step and the scan look cells up at: the 8
\* neighbours and the cell itself.
Offsets9 == {-1, 0, 1} \X {-1, 0, 1}

\* C13: from from_shape(w, h) with w, h > 0 on, through randomize, the scans
\* and the steps, the board keeps w * h cells and its width and height, and
\* every index looked up lies in [0, w*h), so no lookup fails.
C13_ShapeAndIndices ==
    [][(pc \in {"randomize", "clear", "render", "step"}
            /\ board.width > 0 /\ board.height > 0) =>
        /\ pc' # "panicked"
        /\ board'.width = board.width /\ board'.height = board.height
        /\ Len(board.cells) = board.width * board.height
        /\ Len(board'.cells) = board.width * board.height
        /\ \A p \in Positions(board), d \in Offsets9 :
              LET index == index_by_position(board, p[1] + d[1], p[2] + d[2])
              IN  /\ index.hi = 0
                  /\ index.lo \in 0..(board.width * board.height - 1)]_vars

\* A 3x3 board that has been seeded, scanned and stepped, with a live cell left.
C13_Witness ==
    /\ pc = "render" /\ board.width = 3 /\ board.height = 3
    /\ \E i \in 1..Len(board.cells) :
          board.cells[i].next = Alive /\ board.cells[i].current = Alive

\* C14: after a compute_one_step every cell's current is the rule applied to
\* the generation before the step and its next is the current it had before
\* the step, so that (next, current) is (generation k-1, generation k).
C14_SwapKeepsPrevious ==
    [][AtStep =>
        \A i \in 1..Len(board.cells) :
            /\ board'.cells[i].next = board.cells[i].current
            /\ board'.cells[i].current =
                  RuleOfLife(board.cells[i].current,
                             Around(board, (i - 1) % board.width,
                                    (i - 1) \div board.width, Alive))]_vars

\* A board after its first step, in which one cell was born and another
\* stayed alive.
C14_Witness ==
    /\ pc = "render"
    /\ \E i, j \in 1..Len(board.cells) :
          /\ board.cells[i].next = Dead(255) /\ board.cells[i].current = Alive
          /\ board.cells[j].next = Alive /\ board.cells[j].current = Alive

\* The cells of b whose current differs from their next.
Changed(b) == {i \in 1..Len(b.cells) : b.cells[i].current # b.cells[i].next}

\* C15: each iteration scans all cells of the board before stepping it and
\* does not change it while scanning; between two scans the board advances by
\* exactly one generation, so every generation, the seeded one included, is
\* scanned once and in order.
C15_ScanThenOneStep ==
    [][/\ pc = "clear" => (pc' = "render" /\ board' = board)
       /\ pc = "render" =>
             /\ pc' = "step" /\ board' = board
             /\ Len(terminal_commands') = Cardinality(Changed(board))
       /\ pc = "step" =>
             /\ pc' = "render"
             /\ \A i \in 1..Len(board.cells) :
                   board'.cells[i].current = SyncStep(board).cells[i].current]_vars

\* The scan of the second generation: the board has been stepped once, has
\* been scanned again with cells to repaint, and is about to be stepped.
C15_Witness ==
    /\ pc = "step" /\ Len(terminal_commands) >= 2
    /\ \E i \in 1..Len(board.cells) :
          board.cells[i].next = Alive /\ board.cells[i].current = Dead(1)

\* The positions of b that no command of the sequence addresses.
Skipped(b, commands) ==
    LET addressed == {commands[k].at : k \in 1..Len(commands)}
    IN  {p \in Positions(b) : TerminalAt(p) \notin addressed}

\* The positions whose cell has the same current on b and on c.
Unchanged(b, c) ==
    {p \in Positions(b) : CellAt(b, p[1], p[2]).current = CellAt(c, p[1], p[2]).current}

\* C16 as claimed: the scan skips a cell exactly when the compute_one_step
\* that follows the scan leaves the cell's current as it is.
C16_SkipsWhatNextStepKeeps ==
    [][AtStep => Skipped(board, terminal_commands) = Unchanged(board, board')]_vars

\* C16, amended: the scan skips a cell exactly when the compute_one_step
\* that preceded the scan left the cell's current as it was.
C16_SkipsWhatLastStepKept ==
    [][AtStep => Skipped(board', Scan(board').val) = Unchanged(board, board')]_vars

\* A board just stepped on which one cell kept its state and another did not.
C16_Witness ==
    /\ pc = "render"
    /\ \E i \in 1..Len(board.cells) : board.cells[i].next = board.cells[i].current
    /\ \E i \in 1..Len(board.cells) :
          board.cells[i].next = Alive /\ board.cells[i].current = Dead(1)

\* C18: after the scan of every frame, the first included, the terminal
\* shows at (x+1, y+1) the colour of the current state of cell (x, y), as a
\* full redraw would.
C18_ScreenShowsCurrent ==
    (pc = "step" /\ board.width > 0 /\ board.height > 0) =>
        \A p \in Positions(board) :
            /\ TerminalAt(p) \in DOMAIN screen
            /\ screen[TerminalAt(p)] = Colour(CellAt(board, p[1], p[2]).current)

\* A frame after the first in which the terminal shows white, a shade of
\* blue and black cells.
C18_Witness ==
    /\ pc = "step" /\ board.width = 3 /\ board.height = 3
    /\ \E p \in Positions(board) :
          CellAt(board, p[1], p[2]).current = Dead(2) /\ screen[TerminalAt(p)] = <<107, 43, 215>>
    /\ \E p \in Positions(board) :
          CellAt(board, p[1], p[2]).current = Dead(255) /\ screen[TerminalAt(p)] = Black

\* C19: no cell ever holds Dead(0), in current or in next: the ages of dead
\* cells are in 1..255.
C19_NoDeadZero ==
    \A i \in 1..Len(board.cells) :
        /\ board.cells[i].current # Dead(0)
        /\ board.cells[i].next # Dead(0)
        /\ IsDead(board.cells[i].current) => board.cells[i].current.age \in 1..255
        /\ IsDead(board.cells[i].next) => board.cells[i].next.age \in 1..255

\* A board on which a cell has just died, next to one that was never alive.
C19_Witness ==
    /\ pc = "render"
    /\ \E i \in 1..Len(board.cells) :
          board.cells[i].next = Alive /\ board.cells[i].current = Dead(1)
    /\ \E i \in 1..Len(board.cells) : board.cells[i].current = Dead(255)

TypeOK ==
    /\ pc \in {"start", "randomize", "clear", "render", "step", "panicked",
              "call", "returned", "phase1", "committed", "stepped"}
    /\ Len(board.cells) = board.width * board.height
====
